---- MODULE Spec2Model ----
(***************************************************************************)
(* Site inventory builder of app.py: sitemap discovery and parsing, page  *)
(* metadata fetch, polite breadth-first fallback crawl, prioritising sort *)
(* and de-duplication, behind the st.cache_data memoisation.               *)
(*                                                                         *)
(* URLs are strings.  The network is an adversary: the documents a site    *)
(* serves are fixed per site, the outcome of every single request (served, *)
(* non-success status, exception, ...) is chosen anew at each request.     *)
(***************************************************************************)
EXTENDS Integers, Sequences, FiniteSets, TLC

(***************************************************************************)
(* Bounds of the model.                                                    *)
(***************************************************************************)
\* longest string fed to _norm in the normalisation specification
MaxLen == 4
\* number of build_site_inventory calls made in one process
MaxCalls == 2
\* Python's recursion limit (1000 in CPython), scaled down
RecursionLimit == 3

(***************************************************************************)
(* Strings.                                                                *)
(***************************************************************************)
\* the character of s at position i
Char(s, i) == SubSeq(s, i, i)

\* Python's `w in s` on strings
Contains(s, w) ==
    \E i \in 1..(Len(s) - Len(w) + 1) : SubSeq(s, i, i + Len(w) - 1) = w

\* Python's s.endswith(w)
EndsWith(s, w) ==
    Len(s) >= Len(w) /\ SubSeq(s, Len(s) - Len(w) + 1, Len(s)) = w

\* Python's s.startswith(w)
StartsWith(s, w) ==
    Len(s) >= Len(w) /\ SubSeq(s, 1, Len(w)) = w

\* position of the first occurrence of w in s at or after position i, 0 if none
RECURSIVE Find(_, _, _)
Find(s, w, i) ==
    IF i + Len(w) - 1 > Len(s) THEN 0
    ELSE IF SubSeq(s, i, i + Len(w) - 1) = w THEN i
    ELSE Find(s, w, i + 1)

\* Python's s.strip(), for the blank as the only whitespace character
RECURSIVE strip(_)
strip(s) ==
    IF s = "" THEN s
    ELSE IF Char(s, 1) = " " THEN strip(SubSeq(s, 2, Len(s)))
    ELSE IF Char(s, Len(s)) = " " THEN strip(SubSeq(s, 1, Len(s) - 1))
    ELSE s

\* urllib.parse.urldefrag(u)[0]: u up to its first '#'
urldefrag(u) ==
    LET i == Find(u, "#", 1) IN IF i = 0 THEN u ELSE SubSeq(u, 1, i - 1)

\* def _norm(u): fragment dropped, then ONE trailing slash dropped
_norm(u) ==
    LET d == urldefrag(u) IN
    IF EndsWith(d, "/") THEN SubSeq(d, 1, Len(d) - 1) ELSE d

\* end of the first run of characters from position i that are none of / ? #
RECURSIVE NetlocEnd(_, _)
NetlocEnd(s, i) ==
    IF i > Len(s) \/ Char(s, i) \in {"/", "?", "#"} THEN i - 1
    ELSE NetlocEnd(s, i + 1)

\* urlparse(u).netloc: what follows "//" up to the next / ? or #
netloc(u) ==
    LET i == Find(u, "//", 1) IN
    IF i = 0 THEN "" ELSE SubSeq(u, i + 2, NetlocEnd(u, i + 2))

\* scheme://netloc of u
Origin(u) ==
    LET i == Find(u, "//", 1) IN
    IF i = 0 THEN "" ELSE SubSeq(u, 1, NetlocEnd(u, i + 2))

\* def _same_host(a, b)
_same_host(a, b) == netloc(a) = netloc(b)

\* urllib.parse.urljoin(base, href) raises ValueError on this href
BadHref == "h://["

\* urljoin(base, href) for absolute, root-relative and plain relative hrefs
urljoin(base, href) ==
    IF Contains(href, "://") THEN href
    ELSE IF StartsWith(href, "/") THEN Origin(base) \o href
    ELSE LET o == Origin(base)
             path == SubSeq(base, Len(o) + 1, Len(base))
             RECURSIVE LastSlash(_)
             LastSlash(i) == IF i = 0 \/ Char(path, i) = "/" THEN i
                             ELSE LastSlash(i - 1)
             k == LastSlash(Len(path))
         IN IF k = 0 THEN o \o "/" \o href
            ELSE o \o SubSeq(path, 1, k) \o href

\* str.lower(), for the one capital letter the modelled documents use
RECURSIVE lower(_)
lower(s) ==
    IF s = "" THEN s
    ELSE (IF Char(s, 1) = "S" THEN "s" ELSE Char(s, 1))
         \o lower(SubSeq(s, 2, Len(s)))

\* line.split(":", 1)[1]
AfterColon(line) ==
    LET i == Find(line, ":", 1) IN SubSeq(line, i + 1, Len(line))

(***************************************************************************)
(* Sequences.                                                              *)
(***************************************************************************)
Range(s) == { s[i] : i \in DOMAIN s }

\* Python's s[:n] for n >= 0
Take(s, n) == SubSeq(s, 1, IF n < Len(s) THEN n ELSE Len(s))

\* every ordering of a finite set, as list(set) may produce
Orderings(S) ==
    { f \in [1..Cardinality(S) -> S] : \A e \in S : \E i \in DOMAIN f : f[i] = e }

(***************************************************************************)
(* The sites the network may serve.  robots: lines of /robots.txt;         *)
(* sitemaps: the XML documents by URL, a <sitemapindex> or a <urlset>      *)
(* with the texts of its <loc> elements; links: the hrefs of the anchors   *)
(* of each page.  A URL absent from sitemaps is never served successfully; *)
(* a page absent from links has no anchors.                                *)
(***************************************************************************)
\* A links to B, B links to A; no sitemap
CycleSite ==
    [ robots   |-> << >>,
      sitemaps |-> << >>,
      links    |-> [ p \in {"h://x", "h://x/b"} |->
                       IF p = "h://x" THEN << "/b" >> ELSE << "h://x/" >> ] ]

\* a sitemap index of two children with two URLs each, and a linked home page
ShopSite ==
    [ robots   |-> << "Disallow: /cart", "Sitemap: h://x/sm-b.xml" >>,
      sitemaps |-> [ s \in {"h://x/sitemap.xml", "h://x/sm-a.xml", "h://x/sm-b.xml"} |->
                       CASE s = "h://x/sitemap.xml" ->
                              [ kind |-> "sitemapindex",
                                locs |-> << "h://x/sm-a.xml", "", " h://x/sm-b.xml " >> ]
                         [] s = "h://x/sm-a.xml" ->
                              [ kind |-> "urlset",
                                locs |-> << "h://x/blog/post-1", "h://x/services/widget/" >> ]
                         [] OTHER ->
                              [ kind |-> "urlset",
                                locs |-> << "h://x/services/widget#top", "h://x/blog/post-1/" >> ] ],
      links    |-> [ p \in {"h://x", "h://x/blog/post-1"} |->
                       IF p = "h://x"
                       THEN << "/blog/post-1", "/services/widget", "/cart?add=1",
                               "h://y/about" >>
                       ELSE << "h://x/", BadHref, "/about" >> ] ]

\* a urlset that names one page three ways and a page with a query, and
\* pages that do the same
DupSite ==
    [ robots   |-> << >>,
      sitemaps |-> [ s \in {"h://x/sitemap.xml"} |->
                       [ kind |-> "urlset",
                         locs |-> << "h://x/a//", "h://x/a", "h://x/a/#top", "h://x/a?x" >> ] ],
      links    |-> [ p \in {"h://x"} |-> << "/a//", "/a/", "/a?x" >> ] ]

\* a sitemap index that references itself and an empty urlset
LoopSite ==
    [ robots   |-> << "sitemap:h://x/empty.xml" >>,
      sitemaps |-> [ s \in {"h://x/sitemap.xml", "h://x/empty.xml"} |->
                       IF s = "h://x/sitemap.xml"
                       THEN [ kind |-> "sitemapindex", locs |-> << "h://x/sitemap.xml" >> ]
                       ELSE [ kind |-> "urlset", locs |-> << >> ] ],
      links    |-> [ p \in {"h://x"} |-> << "/contact" >> ] ]

Sites == { CycleSite, ShopSite, DupSite, LoopSite }

\* the arguments build_site_inventory is called with
Websites == { "h://x/" }
PageCaps == { 1, 5 }
None == << "None" >>
ExcludeArgs == { None, << "?", "/cart" >> }

\* outcomes of one HTTP request
PageOutcomes == { "html", "nonhtml", "status", "exc" }
XmlOutcomes == { "ok", "malformed", "status", "exc" }
TextOutcomes == { "ok", "status", "exc" }

\* the <title> a page serves: the modelled pages carry their own address
Title(p) == p

\* anchors of the page served at p
Anchors(s, p) == IF p \in DOMAIN s.links THEN s.links[p] ELSE << >>

(***************************************************************************)
(* Results of a Python call: a returned value or a propagated exception.   *)
(***************************************************************************)
Ret(v) == [ raise |-> FALSE, val |-> v ]
Raise == [ raise |-> TRUE, val |-> << >> ]

(***************************************************************************)
(* fetch_page_meta, the link filter of polite_crawl, the sort and the      *)
(* de-duplication of build_site_inventory.                                 *)
(***************************************************************************)
\* fetch_page_meta without its try/except
fetch_page_meta_raising(p, o) ==
    IF o = "exc" THEN Raise
    ELSE IF o = "html" THEN Ret(<< [ url |-> _norm(p), title |-> Title(p) ] >>)
    ELSE Ret(<< >>)

\* def fetch_page_meta(u): the record (a list of one) or None (the empty list);
\* o is the outcome of its request
fetch_page_meta(p, o) ==
    IF o = "html" THEN Ret(<< [ url |-> _norm(p), title |-> Title(p) ] >>)
    ELSE Ret(<< >>)

\* excludes = excludes or []
OrEmpty(ex) == IF ex = None THEN << >> ELSE ex

\* any(pat in v for pat in excludes)
Excluded(v, ex) == \E i \in DOMAIN ex : Contains(v, ex[i])

\* the link loop that ignores the exclusion patterns
RECURSIVE EnqueueLinksNoExclude(_, _, _, _, _, _)
EnqueueLinksNoExclude(hrefs, cur, seed, ex, queue, sn) ==
    IF hrefs = << >> THEN [ q |-> queue, seen |-> sn, exc |-> FALSE ]
    ELSE IF Head(hrefs) = BadHref THEN [ q |-> queue, seen |-> sn, exc |-> TRUE ]
    ELSE LET v == _norm(urljoin(cur, Head(hrefs))) IN
         IF ~_same_host(v, seed) \/ v \in sn
         THEN EnqueueLinksNoExclude(Tail(hrefs), cur, seed, ex, queue, sn)
         ELSE EnqueueLinksNoExclude(Tail(hrefs), cur, seed, ex, Append(queue, v), sn \cup {v})

\* the link loop without the `if v not in seen` test
RECURSIVE EnqueueLinksRevisit(_, _, _, _, _, _)
EnqueueLinksRevisit(hrefs, cur, seed, ex, queue, sn) ==
    IF hrefs = << >> THEN [ q |-> queue, seen |-> sn, exc |-> FALSE ]
    ELSE IF Head(hrefs) = BadHref THEN [ q |-> queue, seen |-> sn, exc |-> TRUE ]
    ELSE LET v == _norm(urljoin(cur, Head(hrefs))) IN
         IF ~_same_host(v, seed) \/ Excluded(v, ex)
         THEN EnqueueLinksRevisit(Tail(hrefs), cur, seed, ex, queue, sn)
         ELSE EnqueueLinksRevisit(Tail(hrefs), cur, seed, ex, Append(queue, v), sn \cup {v})

\* for a in soup.find_all("a", href=True): ... of polite_crawl, from the
\* queue and the seen set it starts with; exc: urljoin raised on the way
RECURSIVE EnqueueLinks(_, _, _, _, _, _)
EnqueueLinks(hrefs, cur, seed, ex, queue, sn) ==
    IF hrefs = << >> THEN [ q |-> queue, seen |-> sn, exc |-> FALSE ]
    ELSE IF Head(hrefs) = BadHref THEN [ q |-> queue, seen |-> sn, exc |-> TRUE ]
    ELSE LET v == _norm(urljoin(cur, Head(hrefs))) IN
         IF ~_same_host(v, seed) \/ Excluded(v, ex) \/ v \in sn
         THEN EnqueueLinks(Tail(hrefs), cur, seed, ex, queue, sn)
         ELSE EnqueueLinks(Tail(hrefs), cur, seed, ex, Append(queue, v), sn \cup {v})

priority_words ==
    << "service", "services", "product", "solutions", "pricing",
       "features", "case", "contact", "about" >>

\* 0 if any(w in x["url"] for w in priority_words) else 1
Tier(x) ==
    IF \E i \in DOMAIN priority_words : Contains(x.url, priority_words[i])
    THEN 0 ELSE 1

\* a sort key that ignores the priority words
SortKeyLenOnly(x) == << 0, Len(x.url) >>

\* key=lambda x: (tier, len(x["url"]))
SortKey(x) == << Tier(x), Len(x.url) >>

\* tuple comparison a < b
KeyLess(a, b) == a[1] < b[1] \/ (a[1] = b[1] /\ a[2] < b[2])

\* x placed into the sorted list s behind every element whose key is not greater
RECURSIVE InsertSorted(_, _)
InsertSorted(s, x) ==
    IF s = << >> THEN << x >>
    ELSE IF KeyLess(SortKey(x), SortKey(Head(s))) THEN << x >> \o s
    ELSE << Head(s) >> \o InsertSorted(Tail(s), x)

\* inventory.sort(key=...): the stable sort
RECURSIVE SortInv(_)
SortInv(s) ==
    IF s = << >> THEN << >>
    ELSE InsertSorted(SortInv(SubSeq(s, 1, Len(s) - 1)), s[Len(s)])

\* the de-duplication loop without its `continue`
DeDupeKeepAll(s, sn) == s

\* seen = set(); out = []; for p in inventory: ... keeps the first of each url
RECURSIVE DeDupe(_, _)
DeDupe(s, sn) ==
    IF s = << >> THEN << >>
    ELSE IF Head(s).url \in sn THEN DeDupe(Tail(s), sn)
    ELSE << Head(s) >> \o DeDupe(Tail(s), sn \cup { Head(s).url })

\* the robots.txt lines that carry a sitemap directive, as discover_sitemaps
\* reads them
RobotsSitemaps(lines) ==
    { strip(AfterColon(lines[i])) :
        i \in { j \in DOMAIN lines : StartsWith(lower(lines[j]), "sitemap:") } }

\* for p in locs[:cap]: if p.text: urls.append(_norm(p.text.strip()))
UrlsetUrls(locs, cap) ==
    LET RECURSIVE Collect(_)
        Collect(l) == IF l = << >> THEN << >>
                      ELSE IF Head(l) = "" THEN Collect(Tail(l))
                      ELSE << _norm(strip(Head(l))) >> \o Collect(Tail(l))
    IN Collect(Take(locs, cap))

\* parse_sitemap returning all it gathered
ReturnUncapped(urls, cap) == urls

\* return urls[:cap]
ReturnCapped(urls, cap) == Take(urls, cap)

\* def discover_sitemaps(base_url): the candidate set; o is the outcome of
\* the robots.txt request
discover_sitemaps(s, base_url, o) ==
    { urljoin(base_url, "/sitemap.xml") }
        \cup (IF o = "ok" THEN RobotsSitemaps(s.robots) ELSE { })

\* a metadata loop over every sitemap URL
MetaUrlsAll(found, mp) == found

\* for u in urls[:max_pages]: the URLs the metadata loop visits
MetaUrls(found, mp) == Take(found, mp)

\* a fallback that always crawls
AlwaysFallback(inv) == TRUE

\* if not inventory:
FallbackNeeded(inv) == inv = << >>

\* a cache keyed by the website alone
CacheKeyWebsiteOnly(w, mp, ex) == << w >>

\* the key st.cache_data derives from the arguments of a call
CacheKey(w, mp, ex) == << w, mp, ex >>

(***************************************************************************)
(* State.                                                                  *)
(***************************************************************************)
VARIABLES
    site,       \* what the network serves
    cache,      \* st.cache_data: key -> returned inventory
    ncalls,     \* calls of build_site_inventory made so far
    pc,         \* position of the running call, "idle" between calls
    website, max_pages, excludes,   \* arguments of the latest call
    sms,        \* sitemap candidates build_site_inventory has not tried yet
    stack,      \* activation records of parse_sitemap, innermost last
    urls,       \* urls of build_site_inventory: the latest parse_sitemap result
    todo,       \* rest of urls[:max_pages] in the metadata loop
    inventory,  \* inventory of build_site_inventory
    q, seen, pages, cur,            \* q, seen, pages and u of polite_crawl
    spaced,     \* time.sleep(delay) has run since the latest request
    allHtml,    \* every request of the running crawl was served as HTML
    netUsed,    \* the latest call made a network request
    raised,     \* an exception left build_site_inventory
    result,     \* what the latest call returned
    ntrace      \* u, _norm(u), _norm(_norm(u)) in the normalisation specification

vars == << site, cache, ncalls, pc, website, max_pages, excludes, sms, stack,
           urls, todo, inventory, q, seen, pages, cur, spaced, allHtml,
           netUsed, raised, result, ntrace >>

\* the locals of a call that has not run a line yet
FreshLocals ==
    /\ sms = << >> /\ stack = << >> /\ urls = << >> /\ todo = << >>
    /\ inventory = << >>
    /\ q = << >> /\ seen = { } /\ pages = << >> /\ cur = ""
    /\ spaced = FALSE /\ allHtml = TRUE

FreshLocalsNext ==
    /\ sms' = << >> /\ stack' = << >> /\ urls' = << >> /\ todo' = << >>
    /\ inventory' = << >>
    /\ q' = << >> /\ seen' = { } /\ pages' = << >> /\ cur' = ""
    /\ spaced' = FALSE /\ allHtml' = TRUE

Init ==
    /\ site \in Sites
    /\ cache = << >>
    /\ ncalls = 0
    /\ pc = "idle"
    /\ website = "" /\ max_pages = 0 /\ excludes = None
    /\ FreshLocals
    /\ netUsed = FALSE /\ raised = FALSE
    /\ result = << >>
    /\ ntrace = << >>

(***************************************************************************)
(* build_site_inventory behind @st.cache_data.                             *)
(***************************************************************************)
\* a call whose key is cached: the stored inventory is returned, the body
\* does not run
CallCached(w, mp, ex) ==
    /\ pc = "idle" /\ ~raised /\ ncalls < MaxCalls
    /\ CacheKey(w, mp, ex) \in DOMAIN cache
    /\ ncalls' = ncalls + 1
    /\ website' = w /\ max_pages' = mp /\ excludes' = ex
    /\ FreshLocalsNext
    /\ netUsed' = FALSE
    /\ result' = cache[CacheKey(w, mp, ex)]
    /\ UNCHANGED << site, cache, pc, raised, ntrace >>

\* a call whose key is not cached: the body starts
CallBuild(w, mp, ex) ==
    /\ pc = "idle" /\ ~raised /\ ncalls < MaxCalls
    /\ CacheKey(w, mp, ex) \notin DOMAIN cache
    /\ ncalls' = ncalls + 1
    /\ website' = w /\ max_pages' = mp /\ excludes' = ex
    /\ FreshLocalsNext
    /\ netUsed' = FALSE
    /\ result' = << >>
    /\ pc' = "discover"
    /\ UNCHANGED << site, cache, raised, ntrace >>

\* for sm in discover_sitemaps(website): the robots.txt request and the list
\* made of the candidate set, in any order
Discover ==
    /\ pc = "discover"
    /\ \E o \in TextOutcomes :
         \E order \in Orderings(discover_sitemaps(site, website, o)) :
            sms' = order
    /\ netUsed' = TRUE
    /\ pc' = "sitemaps"
    /\ UNCHANGED << site, cache, ncalls, website, max_pages, excludes, stack,
                    urls, todo, inventory, q, seen, pages, cur, spaced, allHtml,
                    raised, result, ntrace >>

\* the next candidate is handed to parse_sitemap(sm, cap=max_pages * 2), or
\* the candidates are used up
NextSitemap ==
    /\ pc = "sitemaps"
    /\ IF sms = << >>
       THEN /\ pc' = "fallback"
            /\ UNCHANGED << sms, stack >>
       ELSE /\ stack' = << [ sm |-> Head(sms), st |-> "call",
                             locs |-> << >>, urls |-> << >> ] >>
            /\ sms' = Tail(sms)
            /\ pc' = "parse"
    /\ UNCHANGED << site, cache, ncalls, website, max_pages, excludes,
                    urls, todo, inventory, q, seen, pages, cur, spaced, allHtml,
                    netUsed, raised, result, ntrace >>

\* the innermost parse_sitemap returns val: to the parse_sitemap that called
\* it (urls += ...) or to build_site_inventory (urls = ...; if urls: ...)
Return(val) ==
    IF Len(stack) = 1
    THEN /\ stack' = << >>
         /\ urls' = val
         /\ IF val # << >>
            THEN todo' = MetaUrls(val, max_pages) /\ pc' = "meta"
            ELSE todo' = todo /\ pc' = "sitemaps"
    ELSE LET n == Len(stack) IN
         /\ stack' = [ SubSeq(stack, 1, n - 1) EXCEPT
                         ![n - 1].urls = stack[n - 1].urls \o val ]
         /\ pc' = "parse"
         /\ UNCHANGED << urls, todo >>

\* parse_sitemap from its entry to the branch on the root tag: the request,
\* the XML parse, the <urlset> branch; a call too deep raises RecursionError,
\* which the except clause of that call turns into []
ParseFetch ==
    /\ pc = "parse"
    /\ LET n == Len(stack)
           top == stack[n]
           cap == max_pages * 2
       IN /\ top.st = "call"
          /\ \E o \in (IF top.sm \in DOMAIN site.sitemaps
                       THEN XmlOutcomes ELSE XmlOutcomes \ {"ok"}) :
                IF n > RecursionLimit \/ o # "ok"
                THEN Return(<< >>)
                ELSE LET doc == site.sitemaps[top.sm] IN
                     IF doc.kind = "sitemapindex"
                     THEN /\ stack' = [ stack EXCEPT ![n].st = "loop",
                                                     ![n].locs = doc.locs ]
                          /\ UNCHANGED << urls, todo, pc >>
                     ELSE Return(ReturnCapped(UrlsetUrls(doc.locs, cap), cap))
    /\ netUsed' = TRUE
    /\ UNCHANGED << site, cache, ncalls, website, max_pages, excludes, sms,
                    inventory, q, seen, pages, cur, spaced, allHtml,
                    raised, result, ntrace >>

\* one round of `for p in locs:` in the <sitemapindex> branch, and the
\* return urls[:cap] behind the loop
ParseLoop ==
    /\ pc = "parse"
    /\ LET n == Len(stack)
           top == stack[n]
           cap == max_pages * 2
       IN /\ top.st = "loop"
          /\ IF top.locs = << >>
             THEN Return(ReturnCapped(top.urls, cap))
             ELSE IF Head(top.locs) = ""
             THEN /\ stack' = [ stack EXCEPT ![n].locs = Tail(top.locs) ]
                  /\ UNCHANGED << urls, todo, pc >>
             ELSE /\ stack' = Append([ stack EXCEPT ![n].locs = Tail(top.locs) ],
                                     [ sm |-> strip(Head(top.locs)), st |-> "call",
                                       locs |-> << >>, urls |-> << >> ])
                  /\ UNCHANGED << urls, todo, pc >>
    /\ UNCHANGED << site, cache, ncalls, website, max_pages, excludes, sms,
                    inventory, q, seen, pages, cur, spaced, allHtml,
                    netUsed, raised, result, ntrace >>

\* an exception leaves build_site_inventory: nothing is returned or cached
Propagate ==
    /\ raised' = TRUE
    /\ pc' = "idle"

\* one round of `for u in urls[:max_pages]:` and the break behind the loop
MetaFetch ==
    /\ pc = "meta"
    /\ todo # << >>
    /\ \E o \in PageOutcomes :
         LET m == fetch_page_meta(Head(todo), o) IN
         IF m.raise
         THEN Propagate /\ UNCHANGED << inventory, todo >>
         ELSE /\ inventory' = inventory \o m.val
              /\ todo' = Tail(todo)
              /\ pc' = (IF Tail(todo) = << >> THEN "fallback" ELSE "meta")
              /\ raised' = raised
    /\ netUsed' = TRUE
    /\ UNCHANGED << site, cache, ncalls, website, max_pages, excludes, sms,
                    stack, urls, q, seen, pages, cur, spaced, allHtml,
                    result, ntrace >>

\* if not inventory: inventory = polite_crawl(website, ...), up to the loop
Fallback ==
    /\ pc = "fallback"
    /\ IF FallbackNeeded(inventory)
       THEN /\ q' = << _norm(website) >>
            /\ seen' = { _norm(website) }
            /\ pages' = << >>
            /\ pc' = "crawl"
       ELSE /\ pc' = "sort"
            /\ UNCHANGED << q, seen, pages >>
    /\ UNCHANGED << site, cache, ncalls, website, max_pages, excludes, sms,
                    stack, urls, todo, inventory, cur, spaced, allHtml,
                    netUsed, raised, result, ntrace >>

\* while q and len(pages) < max_pages: u = q.pop(0); meta = fetch_page_meta(u);
\* if meta: pages.append(meta) -- or the loop ends and pages is returned
Crawl ==
    /\ pc = "crawl"
    /\ IF q # << >> /\ Len(pages) < max_pages
       THEN \E o \in PageOutcomes :
              LET m == fetch_page_meta(Head(q), o) IN
              /\ cur' = Head(q)
              /\ q' = Tail(q)
              /\ spaced' = FALSE
              /\ netUsed' = TRUE
              /\ allHtml' = (allHtml /\ o = "html")
              /\ IF m.raise
                 THEN Propagate /\ UNCHANGED << pages >>
                 ELSE /\ pages' = pages \o m.val
                      /\ pc' = "links"
                      /\ raised' = raised
              /\ UNCHANGED inventory
       ELSE /\ inventory' = pages
            /\ pc' = "sort"
            /\ UNCHANGED << q, pages, cur, spaced, allHtml, netUsed, raised >>
    /\ UNCHANGED << site, cache, ncalls, website, max_pages, excludes, sms,
                    stack, urls, todo, seen, result, ntrace >>

\* the try block of polite_crawl up to time.sleep: the second request for u
\* and the link loop; `continue` on a non-success status and on an exception
Links ==
    /\ pc = "links"
    /\ \E o \in PageOutcomes :
         /\ allHtml' = (allHtml /\ o = "html")
         /\ IF o \in {"status", "exc"}
            THEN /\ pc' = "crawl"
                 /\ UNCHANGED << q, seen >>
            ELSE LET r == EnqueueLinks(IF o = "html" THEN Anchors(site, cur) ELSE << >>,
                                       cur, website, OrEmpty(excludes), q, seen)
                 IN /\ q' = r.q
                    /\ seen' = r.seen
                    /\ pc' = (IF r.exc THEN "crawl" ELSE "sleep")
    /\ spaced' = FALSE
    /\ netUsed' = TRUE
    /\ UNCHANGED << site, cache, ncalls, website, max_pages, excludes, sms,
                    stack, urls, todo, inventory, pages, cur,
                    raised, result, ntrace >>

\* time.sleep(delay)
Sleep ==
    /\ pc = "sleep"
    /\ spaced' = TRUE
    /\ pc' = "crawl"
    /\ UNCHANGED << site, cache, ncalls, website, max_pages, excludes, sms,
                    stack, urls, todo, inventory, q, seen, pages, cur, allHtml,
                    netUsed, raised, result, ntrace >>

\* inventory.sort(...), the de-duplication, return out; st.cache_data stores
\* what is returned under the key of the call
SortDeDupe ==
    /\ pc = "sort"
    /\ inventory' = SortInv(inventory)
    /\ result' = DeDupe(inventory', { })
    /\ LET k == CacheKey(website, max_pages, excludes) IN
       cache' = [ x \in DOMAIN cache \cup { k } |->
                    IF x = k THEN result' ELSE cache[x] ]
    /\ pc' = "idle"
    /\ UNCHANGED << site, ncalls, website, max_pages, excludes, sms, stack,
                    urls, todo, q, seen, pages, cur, spaced, allHtml,
                    netUsed, raised, ntrace >>

Next ==
    \/ \E w \in Websites, mp \in PageCaps, ex \in ExcludeArgs : CallCached(w, mp, ex)
    \/ \E w \in Websites, mp \in PageCaps, ex \in ExcludeArgs : CallBuild(w, mp, ex)
    \/ Discover
    \/ NextSitemap
    \/ ParseFetch
    \/ ParseLoop
    \/ MetaFetch
    \/ Fallback
    \/ Crawl
    \/ Links
    \/ Sleep
    \/ SortDeDupe

Spec == Init /\ [][Next]_vars

(***************************************************************************)
(* _norm on arbitrary strings.                                             *)
(***************************************************************************)
NormAlphabet == { "a", "/", "#" }

RECURSIVE StringsUpTo(_)
StringsUpTo(n) ==
    IF n = 0 THEN { "" }
    ELSE LET S == StringsUpTo(n - 1) IN
         S \cup { s \o c : s \in S, c \in NormAlphabet }

InitNorm ==
    /\ site = CycleSite
    /\ cache = << >>
    /\ ncalls = 0
    /\ pc = "idle"
    /\ website = "" /\ max_pages = 0 /\ excludes = None
    /\ FreshLocals
    /\ netUsed = FALSE /\ raised = FALSE
    /\ result = << >>
    /\ ntrace \in { << s >> : s \in StringsUpTo(MaxLen) }

\* _norm applied to the latest value
ApplyNorm ==
    /\ Len(ntrace) \in 1..2
    /\ ntrace' = Append(ntrace, _norm(ntrace[Len(ntrace)]))
    /\ UNCHANGED << site, cache, ncalls, pc, website, max_pages, excludes,
                    sms, stack, urls, todo, inventory, q, seen, pages, cur,
                    spaced, allHtml, netUsed, raised, result >>

NextNorm == ApplyNorm

SpecNorm == InitNorm /\ [][NextNorm]_vars

(***************************************************************************)
(* polite_crawl called on its own.                                         *)
(***************************************************************************)
\* polite_crawl(seed, max_pages, excludes=...) in front of its loop
InitCrawl ==
    /\ site \in Sites
    /\ cache = << >>
    /\ ncalls = 0
    /\ pc = "crawl"
    /\ website \in Websites /\ max_pages \in PageCaps /\ excludes \in ExcludeArgs
    /\ sms = << >> /\ stack = << >> /\ urls = << >> /\ todo = << >>
    /\ inventory = << >>
    /\ q = << _norm(website) >> /\ seen = { _norm(website) }
    /\ pages = << >> /\ cur = ""
    /\ spaced = FALSE /\ allHtml = TRUE
    /\ netUsed = FALSE /\ raised = FALSE
    /\ result = << >>
    /\ ntrace = << >>

NextCrawl == Crawl \/ Links \/ Sleep

SpecCrawl == InitCrawl /\ [][NextCrawl]_vars

\* the interpreter runs the loop on: a step that can be taken is taken
FairCrawl == SpecCrawl /\ WF_vars(NextCrawl)

(***************************************************************************)
(* Properties.                                                             *)
(***************************************************************************)
\* build_site_inventory has returned and nothing runs
Returned == pc = "idle" /\ ncalls > 0 /\ ~raised

\* the latest call ran its body and went through the fallback crawl
CrawlRan == seen # { }

\* the url contains one of the nine priority words
HasPriorityWord(url) ==
    \E w \in { "service", "services", "product", "solutions", "pricing",
               "features", "case", "contact", "about" } : Contains(url, w)

\* C1: the url fields of the records of every returned inventory are
\* pairwise distinct, on the sitemap path and on the crawl path
C1_UrlsDistinct ==
    Returned =>
        \A i, j \in DOMAIN result : i # j => result[i].url # result[j].url

\* C1 witness: a crawl gathered two records of one url and the returned
\* inventory still holds two records
C1_Witness ==
    /\ Returned /\ CrawlRan
    /\ Len(result) >= 2
    /\ Len(inventory) > Len(result)

C3_SitemapCap ==
    [][ /\ Len(urls') <= 2 * max_pages'
        /\ (Len(stack) >= 2 /\ Len(stack') = Len(stack) - 1)
              => Len(stack'[Len(stack')].urls)
                   <= Len(stack[Len(stack')].urls) + 2 * max_pages ]_vars

\* C3 witness: the two children of an index have returned more than cap URLs
\* together, and the index is about to return
C3_Witness ==
    /\ pc = "parse" /\ Len(stack) = 1
    /\ stack[1].st = "loop" /\ stack[1].locs = << >>
    /\ Len(stack[1].urls) > 2 * max_pages

\* C4 as stated: on the two-page cycle with max_pages = 5 the crawl ends
\* with exactly 5 records
C4_FiveRecords ==
    (/\ site = CycleSite /\ max_pages = 5
     /\ pc = "sort" /\ CrawlRan /\ allHtml)
        => Len(pages) = 5

\* C4 amended: on the two-page cycle with max_pages = 5 and every request
\* served as HTML the crawl ends, and it ends with exactly 2 records, one
\* for A and one for B
C4_TwoRecords ==
    /\ [](( /\ site = CycleSite /\ max_pages = 5
            /\ pc = "sort" /\ CrawlRan /\ allHtml )
              => /\ Len(pages) = 2
                 /\ pages[1].url = "h://x" /\ pages[2].url = "h://x/b"
                 /\ q = << >>)
    /\ ((site = CycleSite /\ max_pages = 5 /\ pc = "crawl") ~> (pc = "sort"))

\* C4 witness: the crawl of the cycle has ended with every request served
C4_Witness ==
    /\ site = CycleSite /\ max_pages = 5
    /\ pc = "sort" /\ CrawlRan /\ allHtml
    /\ seen = { "h://x", "h://x/b" }

\* the exclusion patterns the running call works with
ExcludeList == IF excludes = None THEN << >> ELSE excludes

C6_FallbackIff ==
    [][ /\ pc = "fallback" => (pc' = "crawl" <=> inventory = << >>)
        /\ (pc' = "crawl" /\ pc \notin {"crawl", "links", "sleep"}) => pc = "fallback"
        /\ (seen' # { } /\ seen = { }) => (pc = "fallback" /\ inventory = << >>)
        /\ (pc = "sort" /\ pc' = "idle" /\ CrawlRan)
              => /\ Range(result') \subseteq Range(pages)
                 /\ { r.url : r \in Range(result') } = { r.url : r \in Range(pages) } ]_vars

\* C6 witness: a sitemap yielded URLs, every metadata fetch for them
\* returned null, the crawl ran and its records were returned
C6_Witness ==
    /\ Returned /\ CrawlRan
    /\ urls # << >>
    /\ result # << >>

\* C7: _norm(_norm(u)) = _norm(u), and _norm(u) has no fragment and no
\* trailing slash
C7_NormIdempotent ==
    Len(ntrace) = 3 =>
        /\ ntrace[3] = ntrace[2]
        /\ ~Contains(ntrace[2], "#")
        /\ ~EndsWith(ntrace[2], "/")

\* C8: in polite_crawl the delay has run between the requests for one
\* dequeued URL and the first request for the next one
C8_DelayBetweenPages ==
    (pc = "crawl" /\ cur # "" /\ q # << >> /\ Len(pages) < max_pages) => spaced

\* C9: no exception leaves build_site_inventory; a sitemap that fails is
\* followed by the next candidate, a page that fails by the next queue entry
C9_NeverRaises ==
    [][ /\ ~raised'
        /\ (pc = "parse" /\ Len(stack) = 1 /\ stack' = << >> /\ urls' = << >>)
              => (pc' = "sitemaps" /\ sms' = sms)
        /\ (pc = "sitemaps" /\ sms # << >>)
              => (pc' = "parse" /\ stack'[1].sm = Head(sms) /\ sms' = Tail(sms))
        /\ (pc = "meta" /\ todo # << >>) => todo' = Tail(todo)
        /\ (pc = "links" /\ pc' # "sleep")
              => (pc' = "crawl" /\ SubSeq(q', 1, Len(q)) = q /\ pages' = pages)
        /\ (pc = "crawl" /\ q # << >> /\ Len(pages) < max_pages)
              => (pc' = "links" /\ cur' = Head(q))
        /\ (pc = "sort") => (pc' = "idle" /\ result' \in Seq(Range(inventory))) ]_vars

\* C9 witness: a call has returned records although no sitemap could be
\* read and a request of the crawl failed
C9_Witness ==
    /\ Returned /\ CrawlRan /\ ~allHtml
    /\ urls = << >>
    /\ result # << >>

\* C10: a call whose three arguments were used before returns the inventory
\* cached for them without a network request, a call with arguments not
\* used before runs the body, and no cached inventory ever changes
C10_Cache ==
    [][ LET called == ncalls' = ncalls + 1
            key == << website', max_pages', excludes' >>
        IN /\ (called /\ key \in DOMAIN cache)
                 => (pc' = "idle" /\ ~netUsed' /\ result' = cache[key])
           /\ (called /\ key \notin DOMAIN cache)
                 => (pc' = "discover" /\ ~netUsed')
           /\ (netUsed' /\ ~netUsed) => pc # "idle"
           /\ \A k \in DOMAIN cache : k \in DOMAIN cache' /\ cache'[k] = cache[k]
           /\ (pc = "sort" /\ pc' = "idle")
                 => /\ DOMAIN cache' = DOMAIN cache \cup { << website, max_pages, excludes >> }
                    /\ cache'[<< website, max_pages, excludes >>] = result' ]_vars

\* C10 witness: the second call repeated the arguments of the first and
\* got its non-empty inventory back without a request
C10_Witness ==
    /\ pc = "idle" /\ ncalls = 2 /\ ~netUsed
    /\ Cardinality(DOMAIN cache) = 1
    /\ result # << >>
    /\ result = cache[<< website, max_pages, excludes >>]

\* C11: an inventory never holds more than max_pages records: the metadata
\* loop visits the first max_pages sitemap URLs in sitemap order and no
\* others, polite_crawl never holds more than max_pages records, and what
\* is returned has at most max_pages records
C11_AtMostMaxPages ==
    /\ Len(inventory) <= max_pages
    /\ Len(pages) <= max_pages
    /\ Len(result) <= max_pages
    /\ pc = "meta" =>
          LET n == IF Len(urls) < max_pages THEN Len(urls) ELSE max_pages
          IN /\ Len(todo) <= n
             /\ todo = SubSeq(urls, n - Len(todo) + 1, n)
             /\ Len(inventory) <= n - Len(todo)

\* C11 witness: a sitemap gave more URLs than max_pages and the inventory
\* returned from them is full
C11_Witness ==
    /\ Returned /\ ~CrawlRan
    /\ Len(urls) > max_pages
    /\ Len(result) = max_pages

\* C12: once an index has gathered cap URLs from its children, parse_sitemap
\* calls no further child of it
C12_NoFetchBeyondCap ==
    \A i \in 2..Len(stack) :
        (stack[i].st = "call" /\ i <= RecursionLimit)
            => Len(stack[i - 1].urls) < 2 * max_pages

\* C13: no record of a returned inventory has a url that contains one of the
\* excludes substrings of the call
C13_NoExcludedUrl ==
    Returned =>
        \A i \in DOMAIN result :
            \A j \in DOMAIN ExcludeList : ~Contains(result[i].url, ExcludeList[j])
====
